---------------------------- MODULE Spec2Model ----------------------------
(***************************************************************************)
(* Metric normalization and gap-score pipeline of the "proven demand"      *)
(* backend: the Metric Store (marketplace_metrics), the Score Store        *)
(* (gap_scores), the collectors' scrape_and_store, and the two Celery      *)
(* tasks scrape_platform_task and compute_pipeline_task.                   *)
(*                                                                         *)
(* Python floats are modelled as exact rationals <<numerator, denominator>>*)
(* in lowest terms with a positive denominator, so that two equal values   *)
(* are equal tuples.  Dates are week ordinals.  Every SQL statement and    *)
(* every commit of a session is one step: the database runs at its default *)
(* isolation level (READ COMMITTED), so each statement sees what was       *)
(* committed before it and a commit publishes a session's pending changes  *)
(* at once.                                                                *)
(***************************************************************************)
EXTENDS Integers, Sequences, FiniteSets, TLC

----------------------------------------------------------------------------
(* Bounds of the model *)

\* largest raw signal an upstream response yields (Etsy reviews and listings,
\* Reddit upvotes)
MaxRaw == 2
\* lowest raw signal is -MinRawNeg (Reddit upvote totals can be negative)
MinRawNeg == 1
\* number of scrape_platform_task instances dispatched
MaxScrapes == 2
\* number of compute_pipeline_task instances dispatched
MaxRuns == 2
\* size of the worker pool: tasks in flight at once
Workers == 2
\* tasks dispatched to the pool in one behaviour
MaxTasks == 3
\* tasks dispatched to a pool of one worker (SpecSeq)
SeqTasks == 4
\* weeks are the ordinals 1..MaxWeek
MaxWeek == 2
\* observations of a Metric Store drawn as a test fixture (SpecStore)
MaxFixture == 3
\* grid of the pure functions' arguments: k / GridDen (SpecPure)
GridDen == 10

Categories == {"planners", "widgets"}
Weeks == 1 .. MaxWeek
ScrapeIds == 1 .. MaxScrapes
RunIds == 1 .. MaxRuns

----------------------------------------------------------------------------
(* Float arithmetic as exact rationals *)

Abs(x) == IF x < 0 THEN -x ELSE x

RECURSIVE GCD(_, _)
GCD(a, b) == IF b = 0 THEN a ELSE GCD(b, a % b)

\* the rational n/d (d # 0) in lowest terms, denominator positive
Rat(n, d) ==
    LET g == GCD(Abs(n), Abs(d))
        s == IF d < 0 THEN -1 ELSE 1
    IN  <<(s * n) \div g, (s * d) \div g>>

\* Python's None, where a float is expected
None == <<>>

Zero == <<0, 1>>
One == <<1, 1>>
Half == <<1, 2>>

RLe(a, b) == a[1] * b[2] <= b[1] * a[2]
RLt(a, b) == a[1] * b[2] < b[1] * a[2]
RGe(a, b) == RLe(b, a)
RAdd(a, b) == Rat(a[1] * b[2] + b[1] * a[2], a[2] * b[2])
RSub(a, b) == Rat(a[1] * b[2] - b[1] * a[2], a[2] * b[2])
\* a / b for b # 0
RDiv(a, b) == Rat(a[1] * b[2], a[2] * b[1])
RMax(a, b) == IF RLe(a, b) THEN b ELSE a
RMin(a, b) == IF RLe(a, b) THEN a ELSE b

\* Python's max(0.0, min(1.0, x))
Clamp01(x) == RMax(Zero, RMin(One, x))


----------------------------------------------------------------------------
(* Pure functions of the services *)

\* faulty variant: the value is not shifted by the minimum and the result
\* is not clamped
normalize_min_max_unshifted(value, min_val, max_val) ==
    IF max_val = min_val
    THEN Half
    ELSE RDiv(value, RSub(max_val, min_val))

\* faulty variant: a degenerate range yields 0.0
normalize_min_max_zero(value, min_val, max_val) ==
    IF max_val = min_val
    THEN Zero
    ELSE Clamp01(RDiv(RSub(value, min_val), RSub(max_val, min_val)))

\* faulty variant: the distance to the maximum is measured instead of the
\* distance to the minimum
normalize_min_max_inverted(value, min_val, max_val) ==
    IF max_val = min_val
    THEN Half
    ELSE Clamp01(RDiv(RSub(max_val, value), RSub(max_val, min_val)))

\* normalization.py: (value - min) / (max - min), 0.5 on a degenerate range
normalize_min_max(value, min_val, max_val) ==
    IF max_val = min_val
    THEN Half
    ELSE Clamp01(RDiv(RSub(value, min_val), RSub(max_val, min_val)))

\* faulty variant: the bare difference, as the docstring's formula reads
compute_gap_score_difference(demand_score, supply_score) ==
    RSub(demand_score, supply_score)

\* faulty variant: the difference is clamped without being mapped to [0,1]
compute_gap_score_unmapped(demand_score, supply_score) ==
    Clamp01(RSub(demand_score, supply_score))

\* scoring.py: ((demand - supply) + 1) / 2, clamped
compute_gap_score(demand_score, supply_score) ==
    LET gap == RSub(demand_score, supply_score)
        normalized_gap == RDiv(RAdd(gap, One), <<2, 1>>)
    IN  Clamp01(normalized_gap)

HIGH_OPPORTUNITY_THRESHOLD == Rat(6, 10)
COMPETITIVE_THRESHOLD == Rat(3, 10)

\* faulty variant: the thresholds are exclusive
assign_verdict_exclusive(gap_score) ==
    IF RLt(HIGH_OPPORTUNITY_THRESHOLD, gap_score) THEN "high_opportunity"
    ELSE IF RLt(COMPETITIVE_THRESHOLD, gap_score) THEN "competitive"
    ELSE "saturated"

assign_verdict(gap_score) ==
    IF RGe(gap_score, HIGH_OPPORTUNITY_THRESHOLD) THEN "high_opportunity"
    ELSE IF RGe(gap_score, COMPETITIVE_THRESHOLD) THEN "competitive"
    ELSE "saturated"

----------------------------------------------------------------------------
(* The stores and their queries *)

\* the closed enumerations of normalize_all_metrics_for_week
platforms == <<"etsy", "gumroad", "whop", "reddit">>
\* faulty variant: every metric kind of the column is normalized
metric_types_all == <<"demand", "supply", "quality", "price">>

metric_types == <<"demand", "supply">>
NumCohorts == Len(platforms) * Len(metric_types)
\* the i-th (platform, metric_type) of the nested loops
CohortPlatform(i) == platforms[((i - 1) \div Len(metric_types)) + 1]
CohortType(i) == metric_types[((i - 1) % Len(metric_types)) + 1]

\* a row of marketplace_metrics; its id is its position in the store
MarketplaceMetrics(platform, category, metric_type, raw_value, week_start) ==
    [platform |-> platform, category |-> category, metric_type |-> metric_type,
     raw_value |-> raw_value, normalized_value |-> Zero, week_start |-> week_start]

\* a GapScore object before it has a primary key
GapScore(category, platform, gap_score, verdict, week_start) ==
    [category |-> category, platform |-> platform, gap_score |-> gap_score,
     verdict |-> verdict, week_start |-> week_start]

\* the GapScore object as a stored row with primary key id
WithId(g, id) ==
    [id |-> id, category |-> g.category, platform |-> g.platform,
     gap_score |-> g.gap_score, verdict |-> g.verdict, week_start |-> g.week_start]

\* faulty variant: the cohort is taken across platforms
CohortIdsAnyPlatform(ms, platform, metric_type, week_start) ==
    {i \in DOMAIN ms : /\ ms[i].metric_type = metric_type
                       /\ ms[i].week_start = week_start}

\* faulty variant: the cohort is selected without the week filter
CohortIdsAnyWeek(ms, platform, metric_type, week_start) ==
    {i \in DOMAIN ms : /\ ms[i].platform = platform
                       /\ ms[i].metric_type = metric_type}

\* select(MarketplaceMetrics).where(platform, metric_type, week_start): the ids
CohortIds(ms, platform, metric_type, week_start) ==
    {i \in DOMAIN ms : /\ ms[i].platform = platform
                       /\ ms[i].metric_type = metric_type
                       /\ ms[i].week_start = week_start}

\* min(raw_values), max(raw_values) of a non-empty set of rows
MinRawOf(ms, ids) == CHOOSE v \in {ms[i].raw_value : i \in ids} :
                       \A i \in ids : v <= ms[i].raw_value
MaxRawOf(ms, ids) == CHOOSE v \in {ms[i].raw_value : i \in ids} :
                       \A i \in ids : v >= ms[i].raw_value

RECURSIVE SumNormalized(_, _)
SumNormalized(ms, ids) ==
    IF ids = {} THEN Zero
    ELSE LET i == CHOOSE j \in ids : TRUE
         IN  RAdd(ms[i].normalized_value, SumNormalized(ms, ids \ {i}))

\* faulty variant: the aggregate is taken without the category filter
AvgNormalizedAnyCategory(ms, category, platform, week_start, metric_type) ==
    LET ids == {i \in DOMAIN ms : /\ ms[i].platform = platform
                                  /\ ms[i].week_start = week_start
                                  /\ ms[i].metric_type = metric_type}
    IN  IF ids = {} THEN None
        ELSE RDiv(SumNormalized(ms, ids), <<Cardinality(ids), 1>>)

\* select(func.avg(normalized_value)).where(category, platform, week, metric_type)
\* .first(): SQL AVG is NULL (None) over no rows
AvgNormalized(ms, category, platform, week_start, metric_type) ==
    LET ids == {i \in DOMAIN ms : /\ ms[i].category = category
                                  /\ ms[i].platform = platform
                                  /\ ms[i].week_start = week_start
                                  /\ ms[i].metric_type = metric_type}
    IN  IF ids = {} THEN None
        ELSE RDiv(SumNormalized(ms, ids), <<Cardinality(ids), 1>>)

\* Python's `x or 0.0`: None and 0.0 are both falsy
OrZero(x) == IF x = None \/ x = Zero THEN Zero ELSE x

\* faulty variant: an entity without signal is scored all the same
ScoreOfAlways(category, platform, week_start, demand_score, supply_score) ==
    LET gap == compute_gap_score(demand_score, supply_score)
    IN  <<GapScore(category, platform, gap, assign_verdict(gap), week_start)>>

\* faulty variant: the verdict is assigned from the demand score
ScoreOfDemandVerdict(category, platform, week_start, demand_score, supply_score) ==
    IF demand_score = Zero /\ supply_score = Zero
    THEN <<>>
    ELSE LET gap == compute_gap_score(demand_score, supply_score)
         IN  <<GapScore(category, platform, gap, assign_verdict(demand_score), week_start)>>

\* faulty variant: an entity is skipped as soon as one of its aggregates is 0
ScoreOfRequiresBoth(category, platform, week_start, demand_score, supply_score) ==
    IF demand_score = Zero \/ supply_score = Zero
    THEN <<>>
    ELSE LET gap == compute_gap_score(demand_score, supply_score)
         IN  <<GapScore(category, platform, gap, assign_verdict(gap), week_start)>>

\* the tail of compute_gap_score_for_category, from the two aggregates: the
\* list of objects the caller adds to its session (none when it returns None)
ScoreOf(category, platform, week_start, demand_score, supply_score) ==
    IF demand_score = Zero /\ supply_score = Zero
    THEN <<>>
    ELSE LET gap == compute_gap_score(demand_score, supply_score)
         IN  <<GapScore(category, platform, gap, assign_verdict(gap), week_start)>>

\* select(category, platform).where(week_start).distinct()
Combinations(ms, week_start) ==
    {<<ms[i].category, ms[i].platform>> : i \in {j \in DOMAIN ms : ms[j].week_start = week_start}}

\* faulty variant: the existing rows are selected without the week filter
ScoreIdsAllWeeks(gs, week_start) == {g.id : g \in gs}

\* faulty variant: no existing row is selected for deletion (merge instead
\* of replace)
ScoreIdsNone(gs, week_start) == {}

\* select(GapScore).where(week_start): the primary keys
ScoreIds(gs, week_start) == {g.id : g \in {h \in gs : h.week_start = week_start}}

\* all orders in which a result set can be returned
Orderings(S) ==
    {q \in [1 .. Cardinality(S) -> S] : \A a \in S : \E k \in DOMAIN q : q[k] = a}

----------------------------------------------------------------------------
(* The collectors *)

GumroadDemand == 800
GumroadSupply == 300
WhopDemand == 600
WhopSupply == 200
RedditSupply == 50

\* EtsyScraper._process_data on a response of `items` listings whose review
\* strings add up to `reviews` and that carry no parseable rating or price
EtsyProcess(category, week_start, reviews, items) ==
    << MarketplaceMetrics("etsy", category, "demand", reviews, week_start),
       MarketplaceMetrics("etsy", category, "supply", items, week_start),
       MarketplaceMetrics("etsy", category, "quality", 0, week_start),
       MarketplaceMetrics("etsy", category, "price", 0, week_start) >>

\* RedditScraper._process_data on a snapshot of one post with `upvotes`
\* upvotes and no comments
RedditProcess(category, week_start, upvotes) ==
    << MarketplaceMetrics("reddit", category, "demand", upvotes, week_start),
       MarketplaceMetrics("reddit", category, "supply", RedditSupply, week_start),
       MarketplaceMetrics("reddit", category, "volume", 1, week_start),
       MarketplaceMetrics("reddit", category, "engagement", upvotes, week_start) >>

\* extract_metrics: the lists a collector can return.  Etsy and Reddit log
\* an upstream failure or an empty response and return no metrics.
ExtractMetrics(platform, category, week_start) ==
    CASE platform = "etsy" ->
           {<<>>} \cup {EtsyProcess(category, week_start, rv, it) :
                          rv \in 0 .. MaxRaw, it \in 1 .. MaxRaw}
      [] platform = "gumroad" ->
           {<< MarketplaceMetrics("gumroad", category, "demand", GumroadDemand, week_start),
               MarketplaceMetrics("gumroad", category, "supply", GumroadSupply, week_start) >>}
      [] platform = "whop" ->
           {<< MarketplaceMetrics("whop", category, "demand", WhopDemand, week_start),
               MarketplaceMetrics("whop", category, "supply", WhopSupply, week_start) >>}
      [] platform = "reddit" ->
           {<<>>} \cup {RedditProcess(category, week_start, up) :
                          up \in (0 - MinRawNeg) .. MaxRaw}

----------------------------------------------------------------------------
(* State *)

VARIABLES
    metrics,      \* Metric Store: the rows of marketplace_metrics, by id
    gap_scores,   \* Score Store: the rows of gap_scores
    next_id,      \* next primary key of gap_scores
    scrape,       \* the scrape_platform_task instances
    run,          \* the compute_pipeline_task instances
    pool,         \* the worker pool: its size and the tasks it is yet to accept
    call          \* the latest direct call of a service function and its result

vars == <<metrics, gap_scores, next_id, scrape, run, pool, call>>

\* the (category, platform, gap_score, verdict) rows stored for a week
Rows(gs, week_start) ==
    {[category |-> g.category, platform |-> g.platform,
      gap_score |-> g.gap_score, verdict |-> g.verdict] :
        g \in {h \in gs : h.week_start = week_start}}

IdleScrape ==
    [state |-> "PENDING", meta |-> "", platform |-> "", category |-> "",
     week |-> 0, session |-> "none", metrics_collected |-> 0,
     \* history: how the collector's external service answered; the
     \* exception the task raised
     upstream |-> "", error |-> ""]

IdleRun ==
    [state |-> "PENDING", meta |-> "", pc |-> "queued", week |-> 0,
     session |-> "none", ci |-> 0, loaded |-> <<>>, normalized_count |-> 0,
     combos |-> <<>>, existing |-> {}, k |-> 0, demand_score |-> Zero,
     pending |-> <<>>, computed_count |-> 0,
     \* history: no other writer committed or started while the run was in
     \* flight; the week's rows when it started; when it ended, the store
     \* size, the week's rows, the keys it inserted and its rank among the
     \* runs that committed; no observation was stored while the run was in
     \* flight
     solo |-> FALSE, prior |-> {}, size |-> 0, result |-> {}, inserted |-> {},
     rank |-> 0, stable |-> FALSE,
     \* the exception the task raised
     error |-> ""]

NoCall == [fn |-> "none", args |-> <<>>, result |-> <<>>]

\* faulty variant: a task in its last phase is reported as completed
get_task_status_eager(task) ==
    IF task.state = "PROGRESS" /\ task.meta = "computing_scores"
    THEN [status |-> "completed", progress |-> "",
          result |-> <<task.normalized_count, task.computed_count>>, error |-> ""]
    ELSE [status |-> CASE task.state = "PENDING" -> "pending"
                       [] task.state = "PROGRESS" -> "in_progress"
                       [] task.state = "SUCCESS" -> "completed"
                       [] task.state = "FAILURE" -> "failed"
                       [] OTHER -> task.state,
          progress |-> IF task.state = "PROGRESS" THEN task.meta ELSE "",
          result |-> IF task.state = "SUCCESS"
                     THEN <<task.normalized_count, task.computed_count>> ELSE <<>>,
          error |-> IF task.state = "FAILURE" THEN task.error ELSE ""]

\* get_task_status for a compute_pipeline_task, from the state and the info
\* its result backend holds: the status, and the progress meta, the returned
\* counts or the error text that goes with it
get_task_status(task) ==
    [status |-> CASE task.state = "PENDING" -> "pending"
                  [] task.state = "PROGRESS" -> "in_progress"
                  [] task.state = "SUCCESS" -> "completed"
                  [] task.state = "FAILURE" -> "failed"
                  [] OTHER -> task.state,
     progress |-> IF task.state = "PROGRESS" THEN task.meta ELSE "",
     result |-> IF task.state = "SUCCESS"
                THEN <<task.normalized_count, task.computed_count>> ELSE <<>>,
     error |-> IF task.state = "FAILURE" THEN task.error ELSE ""]

Init ==
    /\ metrics = <<>>
    /\ gap_scores = {}
    /\ next_id = 1
    /\ scrape = [t \in ScrapeIds |-> IdleScrape]
    /\ run = [r \in RunIds |-> IdleRun]
    /\ pool = [workers |-> Workers, tasks |-> MaxTasks]
    /\ call = NoCall

Active(r) == run[r].pc \notin {"queued", "done", "failed"}

\* tasks a worker is executing
InFlight ==
    Cardinality({t \in ScrapeIds : scrape[t].state = "PROGRESS"})
      + Cardinality({r \in RunIds : Active(r)})

\* tasks a worker has picked up so far
Dispatched ==
    Cardinality({t \in ScrapeIds : scrape[t].state # "PENDING"})
      + Cardinality({r \in RunIds : run[r].pc # "queued"})

\* every run in flight has been disturbed (another writer committed or started)
Disturbed(rn) ==
    [r \in RunIds |-> IF rn[r].pc \notin {"queued", "done", "failed"}
                      THEN [rn[r] EXCEPT !.solo = FALSE] ELSE rn[r]]

\* observations were stored under every run in flight
Appended(rn) ==
    [r \in RunIds |-> IF rn[r].pc \notin {"queued", "done", "failed"}
                      THEN [rn[r] EXCEPT !.stable = FALSE] ELSE rn[r]]

----------------------------------------------------------------------------
(* scrape_platform_task *)

\* the worker picks the task up: the date parses, a session is opened, the
\* 'scraping' milestone is reported
ScrapeStart(t) ==
    /\ scrape[t].state = "PENDING"
    /\ \A u \in ScrapeIds : u < t => scrape[u].state # "PENDING"
    /\ InFlight < pool.workers
    /\ Dispatched < pool.tasks
    /\ \E p \in {platforms[i] : i \in DOMAIN platforms}, c \in Categories, w \in Weeks :
         scrape' = [scrape EXCEPT ![t] =
                      [IdleScrape EXCEPT !.state = "PROGRESS", !.meta = "scraping",
                                         !.platform = p, !.category = c, !.week = w,
                                         !.session = "open"]]
    /\ UNCHANGED <<metrics, gap_scores, next_id, run, pool, call>>

\* how the external service answered, from what extract_metrics returns: the
\* Etsy and Reddit collectors return no metrics exactly when the request
\* failed, timed out or brought no data
Upstream(ms) == IF ms = <<>> THEN "failed" ELSE "ok"

\* faulty variant: an answer without metrics is retried without a limit: the
\* task reports the retry and calls the collector again
ScrapeStoreRetries(t) ==
    /\ scrape[t].state = "PROGRESS"
    /\ \E ms \in ExtractMetrics(scrape[t].platform, scrape[t].category, scrape[t].week) :
         /\ metrics' = metrics \o ms
         /\ scrape' = [scrape EXCEPT ![t] =
                        IF ms = <<>>
                        THEN [@ EXCEPT !.meta = IF @ = "scraping" THEN "retrying"
                                                ELSE "scraping"]
                        ELSE [IdleScrape EXCEPT !.state = "SUCCESS", !.session = "closed",
                                                !.metrics_collected = Len(ms),
                                                !.upstream = Upstream(ms)]]
         /\ run' = IF Len(ms) > 0 THEN Appended(Disturbed(run)) ELSE run
    /\ UNCHANGED <<gap_scores, next_id, pool, call>>

\* the metric kinds the metric_type column accepts
MetricType == {"demand", "supply", "quality", "price"}

\* the commit of scrape_and_store succeeds: every added row carries a metric
\* kind of the column's enumeration (the database rejects any other value)
Storable(ms) == \A k \in DOMAIN ms : ms[k].metric_type \in MetricType

\* faulty variant: the observations of a (platform, category, week) that is
\* already stored are not stored again
ScrapeStoreIdempotent(t) ==
    /\ scrape[t].state = "PROGRESS"
    /\ \E ms \in ExtractMetrics(scrape[t].platform, scrape[t].category, scrape[t].week) :
         IF Storable(ms)
         THEN LET known == \E i \in DOMAIN metrics :
                              /\ metrics[i].platform = scrape[t].platform
                              /\ metrics[i].category = scrape[t].category
                              /\ metrics[i].week_start = scrape[t].week
              IN  /\ metrics' = IF known THEN metrics ELSE metrics \o ms
                  /\ scrape' = [scrape EXCEPT ![t] =
                                 [IdleScrape EXCEPT !.state = "SUCCESS", !.session = "closed",
                                                    !.metrics_collected = Len(ms),
                                                    !.upstream = Upstream(ms)]]
                  /\ run' = IF Len(ms) > 0 /\ ~known THEN Appended(Disturbed(run)) ELSE run
         ELSE /\ scrape' = [scrape EXCEPT ![t] =
                             [IdleScrape EXCEPT !.state = "FAILURE", !.session = "closed",
                                                !.upstream = Upstream(ms),
                                                !.error = "DataError"]]
              /\ UNCHANGED <<metrics, run>>
    /\ UNCHANGED <<gap_scores, next_id, pool, call>>

\* scrape_and_store: extract, add every metric, commit; the task returns.
\* When the commit raises, nothing is stored, the session is closed and the
\* exception is re-raised
ScrapeStore(t) ==
    /\ scrape[t].state = "PROGRESS"
    /\ \E ms \in ExtractMetrics(scrape[t].platform, scrape[t].category, scrape[t].week) :
         IF Storable(ms)
         THEN /\ metrics' = metrics \o ms
              /\ scrape' = [scrape EXCEPT ![t] =
                             [IdleScrape EXCEPT !.state = "SUCCESS", !.session = "closed",
                                                !.metrics_collected = Len(ms),
                                                !.upstream = Upstream(ms)]]
              /\ run' = IF Len(ms) > 0 THEN Appended(Disturbed(run)) ELSE run
         ELSE /\ scrape' = [scrape EXCEPT ![t] =
                             [IdleScrape EXCEPT !.state = "FAILURE", !.session = "closed",
                                                !.upstream = Upstream(ms),
                                                !.error = "DataError"]]
              /\ UNCHANGED <<metrics, run>>
    /\ UNCHANGED <<gap_scores, next_id, pool, call>>

\* an exception inside the task (the store is unavailable): nothing is
\* committed, the session is closed, the exception is re-raised
ScrapeFail(t) ==
    /\ scrape[t].state = "PROGRESS"
    /\ scrape' = [scrape EXCEPT ![t] =
                   [IdleScrape EXCEPT !.state = "FAILURE", !.session = "closed",
                                      !.error = "OperationalError"]]
    /\ UNCHANGED <<metrics, gap_scores, next_id, run, pool, call>>

----------------------------------------------------------------------------
(* compute_pipeline_task *)

\* the worker picks the task up: the date parses, a session is opened, the
\* 'normalizing' milestone is reported
RunStart(r) ==
    /\ run[r].pc = "queued"
    /\ \A q \in RunIds : q < r => run[q].pc # "queued"
    /\ InFlight < pool.workers
    /\ Dispatched < pool.tasks
    /\ \E w \in Weeks :
         run' = [Disturbed(run) EXCEPT ![r] =
                   [IdleRun EXCEPT !.state = "PROGRESS", !.meta = "normalizing",
                                   !.pc = "normalize", !.week = w, !.session = "open",
                                   !.ci = 1,
                                   !.solo = \A q \in RunIds \ {r} : ~Active(q),
                                   !.stable = TRUE,
                                   !.prior = Rows(gap_scores, w)]]
    /\ UNCHANGED <<metrics, gap_scores, next_id, scrape, pool, call>>

\* faulty variant: the 'computing_scores' milestone is reported after the
\* first cohort and scoring starts there
NextCohortEarly(rec) ==
    [rec EXCEPT !.pc = "enumerate", !.meta = "computing_scores",
                !.ci = 0, !.loaded = <<>>]

\* normalize_all_metrics_for_week moves to the next cohort; after the last
\* one the 'computing_scores' milestone is reported
NextCohort(rec) ==
    IF rec.ci = NumCohorts
    THEN [rec EXCEPT !.pc = "enumerate", !.meta = "computing_scores",
                     !.ci = 0, !.loaded = <<>>]
    ELSE [rec EXCEPT !.pc = "normalize", !.ci = @ + 1, !.loaded = <<>>]

\* normalize_metrics_for_week, the select: the cohort's rows are loaded into
\* the session; an empty cohort returns 0
NormalizeRead(r) ==
    /\ run[r].pc = "normalize"
    /\ LET rec == run[r]
           ids == CohortIds(metrics, CohortPlatform(rec.ci), CohortType(rec.ci), rec.week)
       IN  run' = [run EXCEPT ![r] =
                     IF ids = {}
                     THEN NextCohort(rec)
                     ELSE [rec EXCEPT !.pc = "normalize_commit",
                                      !.loaded = [i \in ids |-> metrics[i].normalized_value]]]
    /\ UNCHANGED <<metrics, gap_scores, next_id, scrape, pool, call>>

\* faulty variant: rows that already carry a non-zero normalized_value are
\* skipped, the others are normalized among themselves
NormalizedValuesFreshOnly(ms, ids) ==
    LET fresh == {i \in ids : ms[i].normalized_value = Zero}
    IN  [i \in ids |->
           IF i \in fresh
           THEN normalize_min_max(Rat(ms[i].raw_value, 1),
                                  Rat(MinRawOf(ms, fresh), 1),
                                  Rat(MaxRawOf(ms, fresh), 1))
           ELSE ms[i].normalized_value]

\* the normalized value of every loaded row, from the min and max of their
\* raw values
NormalizedValues(ms, ids) ==
    LET min_val == MinRawOf(ms, ids)
        max_val == MaxRawOf(ms, ids)
    IN  [i \in ids |-> normalize_min_max(Rat(ms[i].raw_value, 1),
                                         Rat(min_val, 1), Rat(max_val, 1))]

\* faulty variant: the unit of work writes only the row stored last; the
\* rows normalized by an earlier run keep their values
NormalizeCommitNewestOnly(r) ==
    /\ run[r].pc = "normalize_commit"
    /\ LET rec == run[r]
           ids == DOMAIN rec.loaded
           new == NormalizedValues(metrics, ids)
       IN  /\ metrics' = [i \in DOMAIN metrics |->
                            IF i \in ids /\ (\A j \in ids : j <= i)
                            THEN [metrics[i] EXCEPT !.normalized_value = new[i]]
                            ELSE metrics[i]]
           /\ run' = [run EXCEPT ![r] =
                        NextCohort([rec EXCEPT !.normalized_count = @ + Cardinality(ids)])]
    /\ UNCHANGED <<gap_scores, next_id, scrape, pool, call>>

\* faulty variant: the count is the number of rows the unit of work updated
NormalizeCommitCountsUpdates(r) ==
    /\ run[r].pc = "normalize_commit"
    /\ LET rec == run[r]
           ids == DOMAIN rec.loaded
           new == NormalizedValues(metrics, ids)
           updated == {i \in ids : new[i] # rec.loaded[i]}
       IN  /\ metrics' = [i \in DOMAIN metrics |->
                            IF i \in updated
                            THEN [metrics[i] EXCEPT !.normalized_value = new[i]]
                            ELSE metrics[i]]
           /\ run' = [run EXCEPT ![r] =
                        NextCohort([rec EXCEPT !.normalized_count = @ + Cardinality(updated)])]
    /\ UNCHANGED <<gap_scores, next_id, scrape, pool, call>>

\* faulty variant: the committed value is the mean of the value that was
\* loaded and the newly computed one
NormalizeCommitSmoothed(r) ==
    /\ run[r].pc = "normalize_commit"
    /\ LET rec == run[r]
           ids == DOMAIN rec.loaded
           new == NormalizedValues(metrics, ids)
       IN  /\ metrics' = [i \in DOMAIN metrics |->
                            IF i \in ids
                            THEN [metrics[i] EXCEPT !.normalized_value =
                                    RDiv(RAdd(rec.loaded[i], new[i]), <<2, 1>>)]
                            ELSE metrics[i]]
           /\ run' = [run EXCEPT ![r] =
                        NextCohort([rec EXCEPT !.normalized_count = @ + Cardinality(ids)])]
    /\ UNCHANGED <<gap_scores, next_id, scrape, pool, call>>

\* normalize_metrics_for_week, the commit: the unit of work updates the rows
\* whose normalized_value differs from the value that was loaded
NormalizeCommit(r) ==
    /\ run[r].pc = "normalize_commit"
    /\ LET rec == run[r]
           ids == DOMAIN rec.loaded
           new == NormalizedValues(metrics, ids)
       IN  /\ metrics' = [i \in DOMAIN metrics |->
                            IF i \in ids /\ new[i] # rec.loaded[i]
                            THEN [metrics[i] EXCEPT !.normalized_value = new[i]]
                            ELSE metrics[i]]
           /\ run' = [run EXCEPT ![r] =
                        NextCohort([rec EXCEPT !.normalized_count = @ + Cardinality(ids)])]
    /\ UNCHANGED <<gap_scores, next_id, scrape, pool, call>>

\* compute_all_gap_scores_for_week: the distinct (category, platform) pairs
\* of the week, in the order the database returns them
Enumerate(r) ==
    /\ run[r].pc = "enumerate"
    /\ \E q \in Orderings(Combinations(metrics, run[r].week)) :
         run' = [run EXCEPT ![r].pc = "read_existing", ![r].combos = q]
    /\ UNCHANGED <<metrics, gap_scores, next_id, scrape, pool, call>>

\* the week's existing GapScore rows are loaded
ReadExisting(r) ==
    /\ run[r].pc = "read_existing"
    /\ run' = [run EXCEPT ![r].pc = "delete",
                          ![r].existing = ScoreIds(gap_scores, run[r].week)]
    /\ UNCHANGED <<metrics, gap_scores, next_id, scrape, pool, call>>

\* the loaded rows are deleted by primary key and the deletion is committed
DeleteCommit(r) ==
    /\ run[r].pc = "delete"
    /\ gap_scores' = {g \in gap_scores : g.id \notin run[r].existing}
    /\ run' = [run EXCEPT ![r].pc = IF run[r].combos = <<>> THEN "insert" ELSE "demand",
                          ![r].k = 1, ![r].existing = {}]
    /\ UNCHANGED <<metrics, next_id, scrape, pool, call>>

\* compute_gap_score_for_category, the demand aggregate
ReadDemand(r) ==
    /\ run[r].pc = "demand"
    /\ LET rec == run[r]
           c == rec.combos[rec.k][1]
           p == rec.combos[rec.k][2]
       IN  run' = [run EXCEPT ![r].pc = "supply",
                              ![r].demand_score =
                                  OrZero(AvgNormalized(metrics, c, p, rec.week, "demand"))]
    /\ UNCHANGED <<metrics, gap_scores, next_id, scrape, pool, call>>

\* compute_gap_score_for_category, the supply aggregate and the score; the
\* caller adds the score, if any, to its session
ReadSupply(r) ==
    /\ run[r].pc = "supply"
    /\ LET rec == run[r]
           c == rec.combos[rec.k][1]
           p == rec.combos[rec.k][2]
           supply_score == OrZero(AvgNormalized(metrics, c, p, rec.week, "supply"))
           add == ScoreOf(c, p, rec.week, rec.demand_score, supply_score)
       IN  run' = [run EXCEPT ![r].pc = IF rec.k = Len(rec.combos) THEN "insert" ELSE "demand",
                              ![r].k = @ + 1,
                              ![r].demand_score = Zero,
                              ![r].pending = @ \o add,
                              ![r].computed_count = @ + Len(add)]
    /\ UNCHANGED <<metrics, gap_scores, next_id, scrape, pool, call>>

\* the pending scores are inserted and committed; the task returns its
\* counts and closes its session
InsertCommit(r) ==
    /\ run[r].pc = "insert"
    /\ LET rec == run[r]
           n == Len(rec.pending)
       IN  /\ gap_scores' = gap_scores \cup
                  {WithId(rec.pending[j], next_id + j - 1) : j \in 1 .. n}
           /\ next_id' = next_id + n
           /\ run' = [run EXCEPT ![r] =
                        [IdleRun EXCEPT !.state = "SUCCESS", !.pc = "done",
                                        !.week = rec.week, !.session = "closed",
                                        !.normalized_count = rec.normalized_count,
                                        !.computed_count = rec.computed_count,
                                        !.solo = rec.solo,
                                        !.stable = rec.stable,
                                        !.size = Len(metrics),
                                        !.result = Rows(gap_scores', rec.week),
                                        !.inserted = next_id .. (next_id + n - 1),
                                        !.rank = 1 + Cardinality({q \in RunIds :
                                                       run[q].pc = "done"})]]
    /\ UNCHANGED <<metrics, scrape, pool, call>>

\* an exception in either phase (the store is unavailable): the session is
\* closed with its uncommitted changes, the exception is re-raised
RunFail(r) ==
    /\ Active(r)
    /\ run' = [run EXCEPT ![r] =
                 [IdleRun EXCEPT !.state = "FAILURE", !.pc = "failed",
                                 !.week = run[r].week, !.session = "closed",
                                 !.solo = run[r].solo,
                                 !.error = "OperationalError"]]
    /\ UNCHANGED <<metrics, gap_scores, next_id, scrape, pool, call>>

\* the worker picks up a task whose week string is malformed:
\* date.fromisoformat raises before a session is opened or a milestone is
\* reported, the exception is re-raised
RunReject(r) ==
    /\ run[r].pc = "queued"
    /\ \A q \in RunIds : q < r => run[q].pc # "queued"
    /\ InFlight < pool.workers
    /\ Dispatched < pool.tasks
    /\ run' = [run EXCEPT ![r] =
                 [IdleRun EXCEPT !.state = "FAILURE", !.pc = "failed",
                                 !.error = "ValueError"]]
    /\ UNCHANGED <<metrics, gap_scores, next_id, scrape, pool, call>>

----------------------------------------------------------------------------
(* The system: collectors and pipeline runs on a worker pool *)

Next ==
    \/ \E t \in ScrapeIds : ScrapeStart(t)
    \/ \E t \in ScrapeIds : ScrapeStore(t)
    \/ \E t \in ScrapeIds : ScrapeFail(t)
    \/ \E r \in RunIds : RunStart(r)
    \/ \E r \in RunIds : NormalizeRead(r)
    \/ \E r \in RunIds : NormalizeCommit(r)
    \/ \E r \in RunIds : Enumerate(r)
    \/ \E r \in RunIds : ReadExisting(r)
    \/ \E r \in RunIds : DeleteCommit(r)
    \/ \E r \in RunIds : ReadDemand(r)
    \/ \E r \in RunIds : ReadSupply(r)
    \/ \E r \in RunIds : InsertCommit(r)
    \/ \E r \in RunIds : RunFail(r)
    \/ \E r \in RunIds : RunReject(r)

Spec == Init /\ [][Next]_vars

\* the same tasks on a pool of one worker: every task runs alone
InitSeq ==
    /\ metrics = <<>>
    /\ gap_scores = {}
    /\ next_id = 1
    /\ scrape = [t \in ScrapeIds |-> IdleScrape]
    /\ run = [r \in RunIds |-> IdleRun]
    /\ pool = [workers |-> 1, tasks |-> SeqTasks]
    /\ call = NoCall

SpecSeq == InitSeq /\ [][Next]_vars


----------------------------------------------------------------------------
(* The worker executes a task it has picked up: every call the task makes
   returns or raises *)

\* the next statement of the body of scrape task t
ScrapeStep(t) == ScrapeFail(t) \/ ScrapeStore(t)

\* the next statement of the body of pipeline task r
RunStep(r) ==
    \/ RunFail(r)
    \/ NormalizeRead(r)
    \/ NormalizeCommit(r)
    \/ Enumerate(r)
    \/ ReadExisting(r)
    \/ DeleteCommit(r)
    \/ ReadDemand(r)
    \/ ReadSupply(r)
    \/ InsertCommit(r)

Fairness ==
    /\ \A t \in ScrapeIds : WF_vars(ScrapeStep(t))
    /\ \A r \in RunIds : WF_vars(RunStep(r))

SpecLive == Init /\ [][Next]_vars /\ Fairness

----------------------------------------------------------------------------
(* One pipeline run over a Metric Store given as a fixture *)

\* rows as the collectors store them (normalized_value 0.0), of two
\* platforms, every category and week: Etsy demand and supply over the raw
\* range and one further metric kind, Gumroad demand and supply
FixtureRows ==
    {MarketplaceMetrics("etsy", c, kv[1], kv[2], w) :
        c \in Categories, w \in Weeks,
        kv \in ({"demand"} \X (0 .. MaxRaw))
                 \cup ({"supply"} \X (1 .. MaxRaw))
                 \cup {<<"quality", 0>>}}
      \cup
    {MarketplaceMetrics("gumroad", c, kv[1], kv[2], w) :
        c \in Categories, w \in Weeks,
        kv \in {<<"demand", GumroadDemand>>, <<"supply", GumroadSupply>>}}

SetToSeq(S) == CHOOSE q \in Orderings(S) : TRUE

InitStore ==
    /\ \E f \in [1 .. MaxFixture -> FixtureRows] :
         metrics = SetToSeq({f[i] : i \in 1 .. MaxFixture})
    /\ gap_scores = {}
    /\ next_id = 1
    /\ scrape = [t \in ScrapeIds |-> IdleScrape]
    /\ run = [r \in RunIds |-> IdleRun]
    /\ pool = [workers |-> 1, tasks |-> 1]
    /\ call = NoCall

NextStore ==
    \/ \E r \in RunIds : RunStart(r)
    \/ \E r \in RunIds : NormalizeRead(r)
    \/ \E r \in RunIds : NormalizeCommit(r)
    \/ \E r \in RunIds : Enumerate(r)
    \/ \E r \in RunIds : ReadExisting(r)
    \/ \E r \in RunIds : DeleteCommit(r)
    \/ \E r \in RunIds : ReadDemand(r)
    \/ \E r \in RunIds : ReadSupply(r)
    \/ \E r \in RunIds : InsertCommit(r)
    \/ \E r \in RunIds : RunFail(r)

SpecStore == InitStore /\ [][NextStore]_vars

----------------------------------------------------------------------------
(* The read endpoints, over the stores a pipeline run has left *)

\* largest limit asked of get_opportunities
MaxLimit == 2
\* observations in the Metric Store the reports are read from
MaxReportFixture == 2
\* .limit(5) of get_summary
SummaryLimit == 5

\* select(GapScore).where(week_start).order_by(gap_score [desc]).limit(n): the
\* sequences the database can return; the order of rows with equal gap_score
\* is not determined by the statement
OrderedLimit(gs, week_start, n, desc) ==
    LET rows == {g \in gs : g.week_start = week_start}
        m == IF Cardinality(rows) < n THEN Cardinality(rows) ELSE n
        Before(a, b) == IF desc THEN RGe(a.gap_score, b.gap_score)
                                ELSE RLe(a.gap_score, b.gap_score)
    IN  {q \in [1 .. m -> rows] :
           /\ \A i \in 1 .. m, j \in 1 .. m : i < j => (q[i] # q[j] /\ Before(q[i], q[j]))
           /\ \A g \in rows \ {q[i] : i \in 1 .. m} : \A i \in 1 .. m : Before(q[i], g)}

OpportunityItem(g) ==
    [category |-> g.category, platform |-> g.platform,
     gap_score |-> g.gap_score, verdict |-> g.verdict]

\* get_opportunities: the lists it can return
get_opportunities(gs, week_start, limit) ==
    {[k \in DOMAIN q |-> OpportunityItem(q[k])] :
        q \in OrderedLimit(gs, week_start, limit, TRUE)}

\* get_metric_avg: .first() of the normalized values selected without an
\* order, `or 0.0`: the values it can return
get_metric_avg(ms, category, platform, week_start, metric_type) ==
    LET ids == {i \in DOMAIN ms : /\ ms[i].category = category
                                  /\ ms[i].platform = platform
                                  /\ ms[i].week_start = week_start
                                  /\ ms[i].metric_type = metric_type}
    IN  IF ids = {} THEN {Zero} ELSE {OrZero(ms[i].normalized_value) : i \in ids}

\* the SummaryOpportunity objects get_summary can build for a row
SummaryOpportunity(ms, g, week_start) ==
    {[category |-> g.category, platform |-> g.platform,
      gap_score |-> g.gap_score, verdict |-> g.verdict,
      avg_demand |-> d, avg_supply |-> s, avg_quality |-> q, avg_price |-> p] :
        d \in get_metric_avg(ms, g.category, g.platform, week_start, "demand"),
        s \in get_metric_avg(ms, g.category, g.platform, week_start, "supply"),
        q \in get_metric_avg(ms, g.category, g.platform, week_start, "quality"),
        p \in get_metric_avg(ms, g.category, g.platform, week_start, "price")}

\* the enriched lists get_summary can build from a query result
RECURSIVE Enriched(_, _, _)
Enriched(ms, q, week_start) ==
    IF q = <<>> THEN {<<>>}
    ELSE {<<h>> \o t : h \in SummaryOpportunity(ms, Head(q), week_start),
                       t \in Enriched(ms, Tail(q), week_start)}

\* get_summary: the responses it can return
get_summary(gs, ms, week_start) ==
    {[top_opportunities |-> t, saturated_categories |-> b] :
        t \in UNION {Enriched(ms, q, week_start) :
                        q \in OrderedLimit(gs, week_start, SummaryLimit, TRUE)},
        b \in UNION {Enriched(ms, q, week_start) :
                        q \in OrderedLimit(gs, week_start, SummaryLimit, FALSE)}}

\* the reports are read once every task of the pool has ended
Quiet == Dispatched = pool.tasks /\ InFlight = 0

CallGetOpportunities ==
    /\ Quiet
    /\ \E week_start \in Weeks, limit \in 1 .. MaxLimit :
         \E res \in get_opportunities(gap_scores, week_start, limit) :
            call' = [fn |-> "get_opportunities", args |-> <<week_start, limit>>,
                     result |-> res]
    /\ UNCHANGED <<metrics, gap_scores, next_id, scrape, run, pool>>

CallGetSummary ==
    /\ Quiet
    /\ \E week_start \in Weeks :
         \E res \in get_summary(gap_scores, metrics, week_start) :
            call' = [fn |-> "get_summary", args |-> <<week_start>>, result |-> res]
    /\ UNCHANGED <<metrics, gap_scores, next_id, scrape, run, pool>>

NextQuery ==
    \/ \E r \in RunIds : RunStart(r)
    \/ \E r \in RunIds : NormalizeRead(r)
    \/ \E r \in RunIds : NormalizeCommit(r)
    \/ \E r \in RunIds : Enumerate(r)
    \/ \E r \in RunIds : ReadExisting(r)
    \/ \E r \in RunIds : DeleteCommit(r)
    \/ \E r \in RunIds : ReadDemand(r)
    \/ \E r \in RunIds : ReadSupply(r)
    \/ \E r \in RunIds : InsertCommit(r)
    \/ \E r \in RunIds : RunFail(r)
    \/ CallGetOpportunities
    \/ CallGetSummary

\* a Metric Store of up to MaxReportFixture observations, one pipeline run
InitQuery ==
    /\ \E f \in [1 .. MaxReportFixture -> FixtureRows] :
         metrics = SetToSeq({f[i] : i \in 1 .. MaxReportFixture})
    /\ gap_scores = {}
    /\ next_id = 1
    /\ scrape = [t \in ScrapeIds |-> IdleScrape]
    /\ run = [r \in RunIds |-> IdleRun]
    /\ pool = [workers |-> 1, tasks |-> 1]
    /\ call = NoCall

SpecQuery == InitQuery /\ [][NextQuery]_vars

----------------------------------------------------------------------------
(* Runs and scrapes, one at a time, over a Metric Store that already holds
   observations of one cohort *)

MaxAppendFixture == 2

AppendTasks == 3

\* rows as the Etsy collector stores them: the demand observations of one
\* week
AppendRows ==
    {MarketplaceMetrics("etsy", c, "demand", v, 1) :
        c \in Categories, v \in 0 .. MaxRaw}

InitAppend ==
    /\ \E S \in SUBSET AppendRows :
         /\ Cardinality(S) = MaxAppendFixture
         /\ metrics = SetToSeq(S)
    /\ gap_scores = {}
    /\ next_id = 1
    /\ scrape = [t \in ScrapeIds |-> IdleScrape]
    /\ run = [r \in RunIds |-> IdleRun]
    /\ pool = [workers |-> 1, tasks |-> AppendTasks]
    /\ call = NoCall

SpecAppend == InitAppend /\ [][Next]_vars

----------------------------------------------------------------------------
(* Direct calls of the pure functions *)

\* raw values and a range around them
RawGrid == {Rat(k, 1) : k \in (0 - MinRawNeg - 1) .. (MaxRaw + 1)}
\* aggregates k / GridDen, in [0,1] and around it
ScoreGrid == {Rat(k, GridDen) : k \in (0 - 2) .. (GridDen + 2)}
\* scores on the grid and just below each grid point
VerdictGrid == ScoreGrid \cup {RSub(x, Rat(1, 10000)) : x \in ScoreGrid}

CallNormalizeMinMax ==
    /\ \E value \in RawGrid, min_val \in RawGrid, max_val \in RawGrid :
         call' = [fn |-> "normalize_min_max", args |-> <<value, min_val, max_val>>,
                  result |-> normalize_min_max(value, min_val, max_val)]
    /\ UNCHANGED <<metrics, gap_scores, next_id, scrape, run, pool>>

CallComputeGapScore ==
    /\ \E demand_score \in ScoreGrid, supply_score \in ScoreGrid :
         call' = [fn |-> "compute_gap_score", args |-> <<demand_score, supply_score>>,
                  result |-> compute_gap_score(demand_score, supply_score)]
    /\ UNCHANGED <<metrics, gap_scores, next_id, scrape, run, pool>>

CallAssignVerdict ==
    /\ \E gap_score \in VerdictGrid :
         call' = [fn |-> "assign_verdict", args |-> <<gap_score>>,
                  result |-> <<assign_verdict(gap_score)>>]
    /\ UNCHANGED <<metrics, gap_scores, next_id, scrape, run, pool>>

NextPure ==
    \/ CallNormalizeMinMax
    \/ CallComputeGapScore
    \/ CallAssignVerdict

SpecPure == Init /\ [][NextPure]_vars


----------------------------------------------------------------------------
(* Properties *)

InUnit(x) == RLe(Zero, x) /\ RLe(x, One)

\* the step of run r that commits the normalization of its loaded cohort
NormalizeCommitted(r) ==
    /\ run[r].pc = "normalize_commit"
    /\ run'[r].pc \in {"normalize", "enumerate"}

\* C1: two undisturbed runs of the pipeline for the same week, with no
\* observation added between them, end with the same
\* (category, platform, gap_score, verdict) rows for that week
C1_Idempotent ==
    \A r1 \in RunIds, r2 \in RunIds :
        ( /\ r1 # r2
          /\ run[r1].pc = "done" /\ run[r2].pc = "done"
          /\ run[r1].solo /\ run[r2].solo
          /\ run[r1].week = run[r2].week
          /\ run[r1].size = run[r2].size )
        => run[r1].result = run[r2].result

\* two runs for one week over the same non-degenerate data have finished
C1_Witness ==
    /\ run[1].pc = "done" /\ run[2].pc = "done"
    /\ run[1].solo /\ run[2].solo
    /\ run[1].week = run[2].week
    /\ run[1].size = run[2].size
    /\ \E g \in run[2].result : g.verdict = "high_opportunity"
    /\ \E g \in run[2].result : g.verdict = "saturated"

\* C2: the Score Store never holds two rows for one (category, platform, week)
C2_OneRowPerKey ==
    \A g \in gap_scores, h \in gap_scores :
        ( /\ g.category = h.category
          /\ g.platform = h.platform
          /\ g.week_start = h.week_start )
        => g = h

\* the metric store after every cohort of the week has been normalized
RECURSIVE NormalizedFrom(_, _, _)
NormalizedFrom(ms, week_start, i) ==
    IF i > NumCohorts THEN ms
    ELSE LET ids == CohortIds(ms, CohortPlatform(i), CohortType(i), week_start)
             new == NormalizedValues(ms, ids)
         IN  NormalizedFrom(
               [j \in DOMAIN ms |-> IF j \in ids
                                    THEN [ms[j] EXCEPT !.normalized_value = new[j]]
                                    ELSE ms[j]],
               week_start, i + 1)

\* the rows a complete run for the week stores, given the observations ms
CompleteRows(ms, week_start) ==
    LET nm == NormalizedFrom(ms, week_start, 1)
        scored == {ScoreOf(cp[1], cp[2], week_start,
                           OrZero(AvgNormalized(nm, cp[1], cp[2], week_start, "demand")),
                           OrZero(AvgNormalized(nm, cp[1], cp[2], week_start, "supply"))) :
                     cp \in Combinations(nm, week_start)}
    IN  {[category |-> q[1].category, platform |-> q[1].platform,
          gap_score |-> q[1].gap_score, verdict |-> q[1].verdict] :
            q \in {x \in scored : x # <<>>}}

\* C3: when an undisturbed run fails, the week's rows are the rows it found
\* when it started or the complete new set
C3_NoPartialReplace ==
    [][\A r \in RunIds :
          (Active(r) /\ run'[r].pc = "failed" /\ run[r].solo)
          => \/ Rows(gap_scores', run[r].week) = run[r].prior
             \/ Rows(gap_scores', run[r].week) = CompleteRows(metrics', run[r].week)]_vars

\* C4: once two runs for the same week have both finished, no observation
\* having been stored during either, the week's rows are exactly the rows
\* inserted by the run that committed last
C4_LastWriterWins ==
    \A r1 \in RunIds, r2 \in RunIds :
        ( /\ r1 # r2
          /\ run[r1].pc = "done" /\ run[r2].pc = "done"
          /\ run[r1].week = run[r2].week
          /\ run[r1].stable /\ run[r2].stable
          /\ run[r1].rank > run[r2].rank )
        => ScoreIds(gap_scores, run[r1].week) = run[r1].inserted

C6_DegenerateHalf ==
    [][ /\ \A value \in RawGrid, m \in RawGrid : normalize_min_max(value, m, m) = <<1, 2>>
        /\ \A r \in RunIds :
             ( /\ NormalizeCommitted(r)
               /\ \A i \in DOMAIN run[r].loaded, j \in DOMAIN run[r].loaded :
                     metrics[i].raw_value = metrics[j].raw_value )
             => \A i \in DOMAIN run[r].loaded :
                   metrics'[i].normalized_value = <<1, 2>> ]_vars

\* a cohort of two equal raw values and a singleton cohort have been normalized
C6_Witness ==
    /\ run[1].pc = "done"
    /\ \E i \in DOMAIN metrics, j \in DOMAIN metrics :
         /\ i # j
         /\ metrics[i].platform = metrics[j].platform
         /\ metrics[i].metric_type = metrics[j].metric_type
         /\ metrics[i].week_start = run[1].week
         /\ metrics[j].week_start = run[1].week
         /\ metrics[i].raw_value = metrics[j].raw_value
         /\ metrics[i].normalized_value = Half
         /\ metrics[j].normalized_value = Half
    /\ \E i \in DOMAIN metrics :
         /\ metrics[i].normalized_value = Half
         /\ CohortIds(metrics, metrics[i].platform, metrics[i].metric_type,
                      metrics[i].week_start) = {i}

\* C7: every GapScore the pipeline adds or stores has 0 <= gap_score <= 1
C7_GapScoreInUnit ==
    /\ \A g \in gap_scores : InUnit(g.gap_score)
    /\ \A r \in RunIds : \A k \in DOMAIN run[r].pending :
          InUnit(run[r].pending[k].gap_score)

\* a finished run has stored a score at the lower end of the range next to
\* one strictly inside it
C7_Witness ==
    /\ run[1].pc = "done"
    /\ \E g \in gap_scores : g.gap_score = Zero
    /\ \E g \in gap_scores : RLt(Zero, g.gap_score) /\ RLt(g.gap_score, One)

\* ((demand - supply) + 1) / 2 clamped to [0,1], written out
GapFormula(demand, supply) ==
    LET x == RDiv(RAdd(RSub(demand, supply), <<1, 1>>), <<2, 1>>)
    IN  IF RLt(x, <<0, 1>>) THEN <<0, 1>>
        ELSE IF RLt(<<1, 1>>, x) THEN <<1, 1>> ELSE x

C9_VerdictPartition ==
    call.fn = "assign_verdict" =>
        LET x == call.args[1]
            v == call.result[1]
        IN  /\ v \in {"high_opportunity", "competitive", "saturated"}
            /\ v = "high_opportunity" <=> RLe(Rat(6, 10), x)
            /\ v = "competitive" <=> (RLe(Rat(3, 10), x) /\ RLt(x, Rat(6, 10)))
            /\ v = "saturated" <=> RLt(x, Rat(3, 10))
            /\ x = Rat(6, 10) => v = "high_opportunity"
            /\ x = Rat(5999, 10000) => v = "competitive"
            /\ x = Rat(3, 10) => v = "competitive"
            /\ x = Rat(2999, 10000) => v = "saturated"

\* assign_verdict was called on the lower bound of the competitive tier
C9_Witness ==
    /\ call.fn = "assign_verdict"
    /\ call.args = <<Rat(3, 10)>>
    /\ call.result = <<"competitive">>

\* the entity has a demand or a supply observation
HasSignal(category, platform, week_start) ==
    \E i \in DOMAIN metrics :
        /\ metrics[i].category = category
        /\ metrics[i].platform = platform
        /\ metrics[i].week_start = week_start
        /\ metrics[i].metric_type \in {"demand", "supply"}

\* C10: an entity without any demand and without any supply observation has
\* no GapScore, stored or about to be inserted
C10_AbsentEntity ==
    /\ \A g \in gap_scores : HasSignal(g.category, g.platform, g.week_start)
    /\ \A r \in RunIds : \A k \in DOMAIN run[r].pending :
          HasSignal(run[r].pending[k].category, run[r].pending[k].platform,
                    run[r].pending[k].week_start)

\* a run has finished for a week in which an observed entity has neither
\* demand nor supply observations, and scored another entity
C10_Witness ==
    /\ run[1].pc = "done"
    /\ Rows(gap_scores, run[1].week) # {}
    /\ \E cp \in Combinations(metrics, run[1].week) :
         /\ ~HasSignal(cp[1], cp[2], run[1].week)
         /\ \A g \in gap_scores :
               ~(g.category = cp[1] /\ g.platform = cp[2] /\ g.week_start = run[1].week)

\* C11: the step that commits the normalization of cohort (platform,
\* metric_type, week) has loaded only observations of exactly that cohort,
\* gives each the value computed from the minimum and maximum of their raw
\* values, changes nothing but normalized_value, and leaves every observation
\* of another platform, metric type or week as it was
C11_CohortScoped ==
    [][\A r \in RunIds :
          NormalizeCommitted(r)
          => LET ids == DOMAIN run[r].loaded
                 cohort == {i \in DOMAIN metrics :
                              /\ metrics[i].platform = CohortPlatform(run[r].ci)
                              /\ metrics[i].metric_type = CohortType(run[r].ci)
                              /\ metrics[i].week_start = run[r].week}
             IN  /\ ids \subseteq cohort
                 /\ DOMAIN metrics' = DOMAIN metrics
                 /\ \A i \in DOMAIN metrics \ cohort : metrics'[i] = metrics[i]
                 /\ \A i \in DOMAIN metrics :
                       metrics'[i] = [metrics[i] EXCEPT !.normalized_value =
                                                   metrics'[i].normalized_value]
                 /\ \A i \in ids :
                       metrics'[i].normalized_value =
                           normalize_min_max(Rat(metrics[i].raw_value, 1),
                                             Rat(MinRawOf(metrics, ids), 1),
                                             Rat(MaxRawOf(metrics, ids), 1))]_vars

\* a finished run left the smallest member of a cohort at 0 and its largest
\* at 1 although another platform holds a larger raw value of the same
\* metric type and week, itself normalized alone
C11_Witness ==
    /\ run[1].pc = "done"
    /\ \E i \in DOMAIN metrics, j \in DOMAIN metrics, k \in DOMAIN metrics :
         /\ metrics[i].week_start = run[1].week
         /\ metrics[j].week_start = run[1].week
         /\ metrics[k].week_start = run[1].week
         /\ metrics[i].metric_type = metrics[j].metric_type
         /\ metrics[i].metric_type = metrics[k].metric_type
         /\ metrics[i].platform = metrics[k].platform
         /\ metrics[i].platform # metrics[j].platform
         /\ metrics[j].raw_value > metrics[k].raw_value
         /\ metrics[i].normalized_value = Zero
         /\ metrics[k].normalized_value = One
         /\ metrics[j].normalized_value = Half

Terminates(r) ==
    /\ run[r].state \notin {"SUCCESS", "FAILURE"}
    /\ run'[r].state \in {"SUCCESS", "FAILURE"}

\* C13 as stated: a started task reaches a terminal state, success or
\* failure, only after the 'computing_scores' milestone was reported
C13_TerminalAfterBoth ==
    [][\A r \in RunIds :
          (Terminates(r) /\ run[r].state = "PROGRESS")
          => run[r].meta = "computing_scores"]_vars

\* C13: the first milestone a task reports is 'normalizing'; it reports
\* 'computing_scores' only from 'normalizing', with the step that ends the
\* last cohort (its commit, or its select when the cohort is empty), and
\* never 'normalizing' again afterwards; cohorts are normalized only under
\* 'normalizing' and aggregates are read only under 'computing_scores';
\* success comes only with the insert commit under 'computing_scores', and a
\* failure of a started task under one of the two milestones
C13_PhaseOrder ==
    [][\A r \in RunIds :
          /\ (run[r].meta = "" /\ run'[r].meta # "")
             => (run[r].pc = "queued" /\ run'[r].meta = "normalizing")
          /\ (run[r].meta # "computing_scores" /\ run'[r].meta = "computing_scores")
             => /\ run[r].meta = "normalizing"
                /\ run[r].ci = NumCohorts
                /\ \/ NormalizeCommitted(r)
                   \/ /\ run[r].pc = "normalize"
                      /\ CohortIds(metrics, CohortPlatform(NumCohorts),
                                   CohortType(NumCohorts), run[r].week) = {}
          /\ run[r].meta = "computing_scores" => run'[r].meta # "normalizing"
          /\ run'[r].pc \in {"normalize", "normalize_commit"}
             => run'[r].meta = "normalizing"
          /\ run'[r].pc \in {"enumerate", "read_existing", "delete", "demand",
                             "supply", "insert"}
             => run'[r].meta = "computing_scores"
          /\ (Terminates(r) /\ run'[r].state = "SUCCESS")
             => (run[r].pc = "insert" /\ run[r].meta = "computing_scores")
          /\ (Terminates(r) /\ run'[r].state = "FAILURE" /\ run[r].state = "PROGRESS")
             => run[r].meta \in {"normalizing", "computing_scores"}
      ]_vars

\* a run went through both phases, normalizing observations and storing scores
C13_Witness ==
    \E r \in RunIds :
        /\ run[r].state = "SUCCESS"
        /\ run[r].normalized_count > 0
        /\ run[r].computed_count > 0

\* C14: a scrape task whose collector's external service failed, timed out
\* or answered without data ends in the failed state
C14_UpstreamFailureFails ==
    \A t \in ScrapeIds :
        scrape[t].upstream = "failed" => scrape[t].state = "FAILURE"

\* C15: get_task_status reports a compute_pipeline_task as completed, with
\* its two counts, exactly when its insert has committed; as failed, with
\* the error, exactly when an exception ended it (in either phase, or on a
\* malformed week string); as in_progress while it is in either phase; as
\* pending before a worker picked it up
C15_TaskOutcome ==
    \A r \in RunIds :
        LET resp == get_task_status(run[r])
        IN  /\ resp.status \in {"pending", "in_progress", "completed", "failed"}
            /\ resp.status = "pending" <=> run[r].pc = "queued"
            /\ resp.status = "in_progress" <=> Active(r)
            /\ resp.status = "completed" <=> run[r].pc = "done"
            /\ resp.status = "failed" <=> run[r].pc = "failed"
            /\ resp.status = "completed"
               => /\ resp.result = <<run[r].normalized_count, run[r].computed_count>>
                  /\ resp.error = ""
            /\ resp.status = "failed"
               => /\ resp.error \in {"OperationalError", "ValueError"}
                  /\ resp.result = <<>>
            /\ resp.status = "in_progress"
               => /\ resp.progress \in {"normalizing", "computing_scores"}
                  /\ resp.result = <<>>

\* one task completed and reports stored scores, another failed with an
\* exception raised while it was running
C15_Witness ==
    \E r1 \in RunIds, r2 \in RunIds :
        /\ get_task_status(run[r1]).status = "completed"
        /\ get_task_status(run[r1]).result[2] > 0
        /\ get_task_status(run[r2]).status = "failed"
        /\ get_task_status(run[r2]).error = "OperationalError"

\* C16: two identical get_opportunities queries in a row on an unchanged
\* Score Store return the same sequence
C16_StableOrder ==
    [][ ( /\ call.fn = "get_opportunities"
          /\ call'.fn = "get_opportunities"
          /\ call'.args = call.args
          /\ gap_scores' = gap_scores )
        => call'.result = call.result ]_vars

\* the row of a get_summary response for the stored score g, carrying the
\* mean of normalized_value of each metric kind
WithMeans(g) ==
    LET Mean(metric_type) ==
            OrZero(AvgNormalized(metrics, g.category, g.platform, g.week_start, metric_type))
    IN  [category |-> g.category, platform |-> g.platform,
         gap_score |-> g.gap_score, verdict |-> g.verdict,
         avg_demand |-> Mean("demand"), avg_supply |-> Mean("supply"),
         avg_quality |-> Mean("quality"), avg_price |-> Mean("price")]

\* C18: in every response of get_summary, each row's avg_demand, avg_supply,
\* avg_quality and avg_price is the mean of normalized_value over the
\* observations of that category, platform, week and metric kind, 0.0 when
\* there are none
C18_SummaryAverages ==
    call.fn = "get_summary"
    => LET expected == {WithMeans(g) : g \in {h \in gap_scores : h.week_start = call.args[1]}}
       IN  /\ \A k \in DOMAIN call.result.top_opportunities :
                 call.result.top_opportunities[k] \in expected
           /\ \A k \in DOMAIN call.result.saturated_categories :
                 call.result.saturated_categories[k] \in expected

\* C17: when a run for a week has finished, one observation is then stored
\* in a cohort of that week with a raw value below the minimum or above the
\* maximum of the cohort's earlier members, and the pipeline runs again for
\* the week, the commit of that cohort's normalization changes the
\* normalized_value of at least one of the earlier members
C17_AppendChanges ==
    [][ \A q \in RunIds, r \in RunIds :
          ( /\ NormalizeCommitted(r)
            /\ run[q].pc = "done"
            /\ run[q].week = run[r].week )
          => LET ids == DOMAIN run[r].loaded
                 old == {i \in ids : i <= run[q].size}
                 fresh == ids \ old
             IN  ( /\ old # {}
                   /\ \E n \in fresh :
                        /\ fresh = {n}
                        /\ \/ metrics[n].raw_value < MinRawOf(metrics, old)
                           \/ metrics[n].raw_value > MaxRawOf(metrics, old) )
                 => \E i \in old :
                      metrics'[i].normalized_value # metrics[i].normalized_value
      ]_vars

\* two runs for one week have finished, one observation was stored between
\* them above the range of two earlier members of its cohort that differ, and
\* the earlier maximum no longer carries 1.0
C17_Witness ==
    /\ run[1].pc = "done" /\ run[2].pc = "done"
    /\ run[1].week = run[2].week
    /\ LET ids == CohortIds(metrics, "etsy", "demand", run[2].week)
           old == {i \in ids : i <= run[1].size}
           fresh == {i \in ids : i > run[1].size /\ i <= run[2].size}
       IN  /\ Cardinality(old) = 2
           /\ MinRawOf(metrics, old) < MaxRawOf(metrics, old)
           /\ \E n \in fresh :
                /\ fresh = {n}
                /\ metrics[n].raw_value > MaxRawOf(metrics, old)
                /\ metrics[n].normalized_value = One
           /\ \E i \in old :
                /\ metrics[i].raw_value = MaxRawOf(metrics, old)
                /\ metrics[i].normalized_value = Half

\* the step with which run r returns its counts
Returns(r) == run[r].pc = "insert" /\ run'[r].pc = "done"

\* C19: when a run for week W returns and no other writer committed or
\* started while it was in flight, its normalized count is the number of
\* observations of W whose platform is in the fixed list and whose metric
\* kind is demand or supply, and its computed count is the number of rows
\* the Score Store then holds for W
C19_ReturnedCounts ==
    [][ \A r \in RunIds :
          (Returns(r) /\ run'[r].solo)
          => LET W == run'[r].week
             IN  /\ run'[r].normalized_count =
                      Cardinality({i \in DOMAIN metrics' :
                         /\ metrics'[i].week_start = W
                         /\ \E p \in DOMAIN platforms : metrics'[i].platform = platforms[p]
                         /\ \E t \in DOMAIN metric_types :
                              metrics'[i].metric_type = metric_types[t]})
                 /\ run'[r].computed_count =
                      Cardinality({g \in gap_scores' : g.week_start = W})
      ]_vars

\* an undisturbed run has returned non-zero counts for a week that also holds
\* observations of another metric kind and of one platform only, while the
\* store holds observations of another week
C19_Witness ==
    \E r \in RunIds :
        /\ run[r].pc = "done" /\ run[r].solo
        /\ run[r].normalized_count > 0
        /\ run[r].computed_count > 0
        /\ run[r].size = Len(metrics)
        /\ \E i \in DOMAIN metrics :
             metrics[i].week_start = run[r].week /\ metrics[i].metric_type = "quality"
        /\ \E i \in DOMAIN metrics : metrics[i].week_start # run[r].week
        /\ CohortIds(metrics, "gumroad", "demand", run[r].week) = {}
        /\ run[r].normalized_count < Len(metrics)

\* a task's terminal states
Terminal(task) == task.state \in {"SUCCESS", "FAILURE"}

\* C20: from some point on no scrape task and no pipeline task is in
\* progress; a task in progress only ever moves to SUCCESS or FAILURE, and a
\* task in a terminal state never changes again (so every started task
\* reaches a terminal state and stays in it); a task in progress holds the
\* session it opened and a task in a terminal state holds no open session
C20_RunToCompletion ==
    /\ <>[](/\ \A t \in ScrapeIds : scrape[t].state # "PROGRESS"
            /\ \A r \in RunIds : run[r].state # "PROGRESS")
    /\ [][ /\ \A t \in ScrapeIds :
                /\ Terminal(scrape[t]) => scrape'[t] = scrape[t]
                /\ scrape[t].state = "PROGRESS"
                     => scrape'[t].state \in {"PROGRESS", "SUCCESS", "FAILURE"}
           /\ \A r \in RunIds :
                /\ Terminal(run[r]) => run'[r] = run[r]
                /\ run[r].state = "PROGRESS"
                     => run'[r].state \in {"PROGRESS", "SUCCESS", "FAILURE"} ]_vars
    /\ [](\A t \in ScrapeIds :
            /\ Terminal(scrape[t]) => scrape[t].session # "open"
            /\ scrape[t].state = "PROGRESS" => scrape[t].session = "open")
    /\ [](\A r \in RunIds :
            /\ Terminal(run[r]) => run[r].session # "open"
            /\ run[r].state = "PROGRESS" => run[r].session = "open")

\* a pipeline task has succeeded, another has failed after it started, a
\* scrape task has failed, and each has closed the session it opened
C20_Witness ==
    /\ \E r \in RunIds : run[r].state = "SUCCESS" /\ run[r].session = "closed"
    /\ \E r \in RunIds :
         /\ run[r].state = "FAILURE" /\ run[r].error = "OperationalError"
         /\ run[r].session = "closed"
    /\ \E t \in ScrapeIds : scrape[t].state = "FAILURE" /\ scrape[t].session = "closed"

\* the call of normalize_metrics_for_week by run r that finds its cohort empty
NormalizeSkipped(r) ==
    /\ run[r].pc = "normalize"
    /\ run'[r].pc \in {"normalize", "enumerate"}

\* a run for the week of run r has finished and no observation was stored
\* since: every cohort of that week was normalized before, over the raw
\* values it still has
NormalizedBefore(r) ==
    \E q \in RunIds : /\ run[q].pc = "done"
                      /\ run[q].week = run[r].week
                      /\ run[q].size = Len(metrics)

\* C21: a call of normalize_metrics_for_week on a cohort that was normalized
\* before and whose raw values have not changed leaves the Metric Store as it
\* is and returns the number of the cohort's members, as the first call did
\* (two finished runs over the same observations report the same count); a
\* call on an empty cohort changes nothing and adds 0 to the count
C21_NormalizeIdempotent ==
    [][ /\ \A r \in RunIds :
             (NormalizeCommitted(r) /\ NormalizedBefore(r))
             => /\ metrics' = metrics
                /\ run'[r].normalized_count =
                     run[r].normalized_count + Cardinality(DOMAIN run[r].loaded)
                /\ DOMAIN run[r].loaded =
                     CohortIds(metrics, CohortPlatform(run[r].ci), CohortType(run[r].ci),
                               run[r].week)
        /\ \A r \in RunIds :
             NormalizeSkipped(r)
             => /\ metrics' = metrics
                /\ run'[r].normalized_count = run[r].normalized_count
                /\ CohortIds(metrics, CohortPlatform(run[r].ci), CohortType(run[r].ci),
                             run[r].week) = {}
        /\ \A q \in RunIds, r \in RunIds :
             ( /\ run[q].pc = "done" /\ run[r].pc = "done"
               /\ run[q].week = run[r].week
               /\ run[q].size = run[r].size )
             => run[q].normalized_count = run[r].normalized_count
      ]_vars

\* two runs for one week have finished over the same observations, among
\* them a cohort of two members with different raw values
C21_Witness ==
    /\ run[1].pc = "done" /\ run[2].pc = "done"
    /\ run[1].week = run[2].week
    /\ run[1].size = run[2].size
    /\ run[1].normalized_count > 0
    /\ LET ids == CohortIds(metrics, "etsy", "demand", run[2].week)
       IN  /\ Cardinality(ids) = 2
           /\ MinRawOf(metrics, ids) < MaxRawOf(metrics, ids)
           /\ \E i \in ids : metrics[i].normalized_value = One

\* the observations matching a four-part key
Matching(category, platform, week_start, metric_type) ==
    {i \in DOMAIN metrics : /\ metrics[i].category = category
                            /\ metrics[i].platform = platform
                            /\ metrics[i].week_start = week_start
                            /\ metrics[i].metric_type = metric_type}

\* x is the score of the observations ids: 0.0 when there are none, else the
\* number that, multiplied by their count, gives the sum of their
\* normalized values
IsMeanOrZero(x, ids) ==
    IF ids = {} THEN x = Zero
    ELSE LET sum == SumNormalized(metrics, ids)
         IN  x[1] * Cardinality(ids) * sum[2] = sum[1] * x[2]

\* the values a mean of at most MaxFixture normalized values can take
MeanGrid == {Rat(a, b) : a \in 0 .. (2 * MaxFixture), b \in 1 .. (2 * MaxFixture)}

\* C22: the demand score a run reads for (category, platform, week) is the
\* arithmetic mean of normalized_value over the observations of exactly that
\* category, platform, week and kind demand, 0.0 when there are none; the
\* score the run then adds is the one computed from that demand score and
\* the same mean over the observations of kind supply
C22_Aggregation ==
    [][ \A r \in RunIds :
          LET rec == run[r]
              c == rec.combos[rec.k][1]
              p == rec.combos[rec.k][2]
          IN  /\ (rec.pc = "demand" /\ run'[r].pc = "supply")
                 => IsMeanOrZero(run'[r].demand_score, Matching(c, p, rec.week, "demand"))
              /\ (rec.pc = "supply" /\ run'[r].pc \in {"demand", "insert"})
                 => \E s \in MeanGrid :
                      /\ IsMeanOrZero(s, Matching(c, p, rec.week, "supply"))
                      /\ run'[r].pending =
                           rec.pending \o ScoreOf(c, p, rec.week, rec.demand_score, s)
      ]_vars

\* a run has read the demand score 1/2 of an entity with two demand
\* observations, 0.0 and 1.0, while the cohort holds a third observation of
\* another category
C22_Witness ==
    \E r \in RunIds :
        /\ run[r].pc = "supply"
        /\ run[r].demand_score = Half
        /\ LET c == run[r].combos[run[r].k][1]
               p == run[r].combos[run[r].k][2]
               ids == Matching(c, p, run[r].week, "demand")
           IN  /\ Cardinality(ids) = 2
               /\ \E i \in ids : metrics[i].normalized_value = Zero
               /\ \E i \in ids : metrics[i].normalized_value = One
               /\ \E i \in DOMAIN metrics :
                    /\ metrics[i].platform = p
                    /\ metrics[i].week_start = run[r].week
                    /\ metrics[i].metric_type = "demand"
                    /\ metrics[i].category # c

\* the entity score is absent: the demand mean and the supply mean of the
\* entity are both 0 (or there is nothing to average)
Absent(category, platform, week_start) ==
    /\ IsMeanOrZero(Zero, Matching(category, platform, week_start, "demand"))
    /\ IsMeanOrZero(Zero, Matching(category, platform, week_start, "supply"))

\* the (category, platform) pairs with a row in the Score Store gs for a week
ScoredPairs(gs, week_start) ==
    {<<g.category, g.platform>> : g \in {h \in gs : h.week_start = week_start}}

\* C23: when a run for week W returns and no other writer committed or
\* started while it was in flight, the pairs with a GapScore row for W are
\* exactly the distinct (category, platform) pairs observed for W whose
\* entity score is not absent, one row each; rows of W stored by an earlier
\* run are gone
C23_DataDriven ==
    [][ \A r \in RunIds :
          (Returns(r) /\ run'[r].solo)
          => LET W == run'[r].week
                 observed == {<<metrics[i].category, metrics[i].platform>> :
                                i \in {j \in DOMAIN metrics : metrics[j].week_start = W}}
             IN  /\ ScoredPairs(gap_scores', W) =
                      {cp \in observed : ~Absent(cp[1], cp[2], W)}
                 /\ \A g \in gap_scores' : g.week_start = W => g.id \in run'[r].inserted
                 /\ Cardinality(run'[r].inserted) = Cardinality(ScoredPairs(gap_scores', W))
      ]_vars

\* a pair scored by the first run of a week is still observed but was not
\* scored by the second run of that week, which scored another pair
C23_Witness ==
    /\ run[1].pc = "done" /\ run[2].pc = "done"
    /\ run[1].week = run[2].week
    /\ run[2].rank = 2
    /\ \E g \in run[1].result :
         /\ <<g.category, g.platform>> \notin ScoredPairs(gap_scores, run[2].week)
         /\ HasSignal(g.category, g.platform, run[2].week)
    /\ ScoredPairs(gap_scores, run[2].week) # {}

\* the verdict that goes with a score under the thresholds 0.6 and 0.3
VerdictAgrees(g) ==
    /\ g.verdict = "high_opportunity" <=> RGe(g.gap_score, Rat(6, 10))
    /\ g.verdict = "competitive"
         <=> (RGe(g.gap_score, Rat(3, 10)) /\ RLt(g.gap_score, Rat(6, 10)))
    /\ g.verdict = "saturated" <=> RLt(g.gap_score, Rat(3, 10))
    /\ g.verdict = assign_verdict(g.gap_score)

\* C24: every row of the Score Store, and every row a run is about to insert,
\* carries the verdict assign_verdict gives its gap_score
C24_VerdictConsistent ==
    /\ \A g \in gap_scores : VerdictAgrees(g)
    /\ \A r \in RunIds : \A k \in DOMAIN run[r].pending : VerdictAgrees(run[r].pending[k])

\* the Score Store holds a competitive row and a saturated row
C24_Witness ==
    /\ \E g \in gap_scores : g.verdict = "competitive" /\ g.gap_score = Half
    /\ \E g \in gap_scores : g.verdict = "saturated" /\ g.gap_score = Rat(1, 4)

\* a step of a pipeline run: no scrape task moves
RunStepTaken == scrape' = scrape /\ run' # run

\* C25: a step of a pipeline run inserts and deletes no observation, changes
\* no raw_value, platform, category, metric_type or week_start, and changes
\* the normalized_value only of observations of the week of the run that
\* commits its normalization with that step
C25_MetricFrame ==
    [][ RunStepTaken
        => /\ DOMAIN metrics' = DOMAIN metrics
           /\ \A i \in DOMAIN metrics :
                /\ [metrics'[i] EXCEPT !.normalized_value = Zero] =
                     [metrics[i] EXCEPT !.normalized_value = Zero]
                /\ metrics'[i] # metrics[i]
                     => \E r \in RunIds : /\ NormalizeCommitted(r)
                                          /\ run[r].week = metrics[i].week_start
      ]_vars

\* a run has normalized its week, giving an observation of the week a
\* non-zero value, while the store holds an observation of another week that
\* still carries 0.0
C25_Witness ==
    \E r \in RunIds :
        /\ run[r].pc = "enumerate"
        /\ \E i \in DOMAIN metrics :
             /\ metrics[i].week_start = run[r].week
             /\ metrics[i].normalized_value # Zero
        /\ \E i \in DOMAIN metrics :
             /\ metrics[i].week_start # run[r].week
             /\ metrics[i].metric_type = "demand"
             /\ metrics[i].normalized_value = Zero

\* the observation is outside the normalization sweep: its metric kind is
\* not demand or supply, or its platform is not in the fixed list
Unswept(m) ==
    \/ m.metric_type \notin {"demand", "supply"}
    \/ m.platform \notin {"etsy", "gumroad", "whop", "reddit"}

\* the pairs observed for a week all of whose observations are outside the
\* sweep
UnsweptPairs(week_start) ==
    {cp \in Combinations(metrics, week_start) :
        \A i \in DOMAIN metrics :
            ( /\ metrics[i].category = cp[1]
              /\ metrics[i].platform = cp[2]
              /\ metrics[i].week_start = week_start )
            => Unswept(metrics[i])}

Scored(r) == run[r].pc = "supply" /\ run'[r].pc \in {"demand", "insert"}

ReadsAggregate(r, metric_type) ==
    /\ metric_type = "demand" => (run[r].pc = "demand" /\ run'[r].pc = "supply")
    /\ metric_type = "supply" => Scored(r)

\* C28: every demand or supply observation a run averages carries the
\* min-max value of its raw value within its cohort as the cohort is when the
\* aggregate is read
C28_AveragedAreNormalized ==
    [][ \A r \in RunIds, metric_type \in {"demand", "supply"} :
          ReadsAggregate(r, metric_type)
          => LET rec == run[r]
                 c == rec.combos[rec.k][1]
                 p == rec.combos[rec.k][2]
                 cohort == CohortIds(metrics, p, metric_type, rec.week)
             IN  \A i \in Matching(c, p, rec.week, metric_type) :
                    metrics[i].normalized_value = NormalizedValues(metrics, cohort)[i]
      ]_vars

\* C29: when normalize_metrics_for_week commits a cohort whose raw values
\* are not all equal, every member holding the minimum raw value is at 0,
\* every member holding the maximum is at 1, and a member with a raw value
\* no larger than another's has a normalized_value no larger than the other's
C29_EndpointsAndOrder ==
    [][\A r \in RunIds :
          NormalizeCommitted(r)
          => LET ids == DOMAIN run[r].loaded
                 raws == {metrics[i].raw_value : i \in ids}
             IN  (\E v \in raws, w \in raws : v < w)
                 => /\ \A i \in ids :
                         /\ (\A w \in raws : metrics[i].raw_value <= w)
                            => metrics'[i].normalized_value = Zero
                         /\ (\A w \in raws : metrics[i].raw_value >= w)
                            => metrics'[i].normalized_value = One
                    /\ \A a \in ids, b \in ids :
                         metrics[a].raw_value <= metrics[b].raw_value
                         => RLe(metrics'[a].normalized_value,
                                metrics'[b].normalized_value)]_vars

\* a cohort in which two members hold the minimum raw value and a third a
\* larger one has been normalized: both minima are at 0 and the third at 1
C29_Witness ==
    /\ run[1].pc = "done"
    /\ \E i \in DOMAIN metrics, j \in DOMAIN metrics, k \in DOMAIN metrics :
         /\ i # j
         /\ {i, j, k} = CohortIds(metrics, metrics[i].platform,
                                  metrics[i].metric_type, run[1].week)
         /\ metrics[i].raw_value = metrics[j].raw_value
         /\ metrics[i].raw_value < metrics[k].raw_value
         /\ metrics[i].normalized_value = Zero
         /\ metrics[j].normalized_value = Zero
         /\ metrics[k].normalized_value = One

\* the step with which scrape task t leaves scrape_and_store
ScrapeEnded(t) ==
    /\ scrape[t].state = "PROGRESS"
    /\ scrape'[t].state \in {"SUCCESS", "FAILURE"}

\* the number of stored observations of a week
WeekCount(ms, week_start) ==
    Cardinality({i \in DOMAIN ms : ms[i].week_start = week_start})

\* the stored rows that hold the observation o
Copies(ms, o) ==
    {i \in DOMAIN ms : /\ ms[i].platform = o.platform
                       /\ ms[i].category = o.category
                       /\ ms[i].metric_type = o.metric_type
                       /\ ms[i].week_start = o.week_start
                       /\ ms[i].raw_value = o.raw_value}

============================================================================
